---- MODULE Spec2Model ----
(***************************************************************************)
(* Model of the doc-link-chain application: the persisted ledgers          *)
(* (tables blockchain_renewed and blockchain), the encrypted objects       *)
(* (encrypted_files, encrypted_folders, encrypted_images, medical_records),*)
(* the key directory (profiles) and the handlers that write them.          *)
(*                                                                         *)
(* Every await on the database is one step of a handler; the synchronous   *)
(* code that follows an await runs in the same step.  Strings are modelled *)
(* as tagged tuples so that values of different kinds are never equal:     *)
(*   <<"empty">>            the empty string ''                            *)
(*   <<"aes", n>>           a key returned by generateAESKey               *)
(*   <<"garbage", c, pass>> bytes left by the AES decryption of c under a  *)
(*                          wrong passphrase that happen to be valid UTF-8 *)
(*   <<"throw">>            'Malformed UTF-8 data' thrown by toString      *)
(*   <<"enc", pass, plain>> CryptoJS.AES.encrypt(plain, pass)              *)
(*   <<prefix, body>>       a key string PUBLIC_body / PRIVATE_body / body *)
(*   <<"sha256", i, t, d, p>> SHA256(i + t + JSON.stringify(d) + p)        *)
(* SHA-256 is taken as injective and a wrong-passphrase decryption never   *)
(* yields the original plaintext.                                          *)
(***************************************************************************)
EXTENDS Integers, Sequences, FiniteSets, TLC

\* ------------------------------------------------------------------ bounds
MaxOps == 1        \* handler runs started in one behaviour of Spec
MaxFiles == 2      \* files picked for one folder or image upload
MaxClock == 1      \* clock readings 0..MaxClock

Users == {"u1", "u2"}
Procs == {"p1", "p2"}

VARIABLES
  now,                 \* wall clock (new Date(), now())
  nOps,                \* handler runs started so far
  cap,                 \* handler runs the behaviour may start
  profiles,            \* profiles: public_key_pem, private_key_pem per user
  encrypted_files,     \* rows of encrypted_files
  encrypted_folders,   \* rows of encrypted_folders
  encrypted_images,    \* rows of encrypted_images
  medical_records,     \* rows of medical_records
  blockchain_renewed,  \* rows of blockchain_renewed, in insertion order
  blockchain,          \* rows of blockchain, in insertion order
  proc,                \* state of the handler each session is running
  cx                   \* scratch state of the pure-function specification

vars == <<now, nOps, cap, profiles, encrypted_files, encrypted_folders,
          encrypted_images, medical_records, blockchain_renewed, blockchain,
          proc, cx>>

\* ------------------------------------------------------------ encryption.ts
EMPTY == <<"empty">>
\* the text a decryption of c under a passphrase that did not encrypt it leaves
Garbage(c, pass) == <<"garbage", c, pass>>
THROW == <<"throw">>
NULL == <<"null", "null">>

AESKeys == {<<"aes", n>> : n \in 1..2}

\* generateRSAKeyPair: PUBLIC_x and PRIVATE_x over one random x
generateRSAKeyPair(x) ==
  [publicKey |-> <<"PUBLIC_", x>>, privateKey |-> <<"PRIVATE_", x>>]

\* deriveSharedSecret: key.replace(/^PUBLIC_|^PRIVATE_/, '')
deriveSharedSecretNoStrip(key) == key
deriveSharedSecret(key) ==
  IF key[1] \in {"PUBLIC_", "PRIVATE_"} THEN <<"", key[2]>> ELSE key

\* privateKey.replace(/^PRIVATE_/, 'PUBLIC_')
ReplacePrivateByPublic(key) ==
  IF key[1] = "PRIVATE_" THEN <<"PUBLIC_", key[2]>> ELSE key

\* CryptoJS.AES.encrypt(data, pass).toString()
AESEncrypt(data, pass) == <<"enc", pass, data>>

\* CryptoJS.AES.decrypt(c, pass).toString(Utf8): the outcomes it can have.
\* Under the passphrase that encrypted c it is the plaintext.  Under any other
\* passphrase (or on text that is no ciphertext) CBC decryption and the
\* unchecked PKCS7 unpadding leave arbitrary bytes: none (''), bytes that are
\* not UTF-8 (toString throws) or bytes that are UTF-8 (a garbage string).
AESDecryptOutcomes(c, pass) ==
  IF c[1] = "enc" /\ c[2] = pass THEN {c[3]} ELSE {EMPTY, Garbage(c, pass), THROW}

encryptKeyWithRSA(aesKey, publicKey) ==
  AESEncrypt(aesKey, deriveSharedSecret(publicKey))

CandidatesNoDerived(privateKey) ==
  <<privateKey, ReplacePrivateByPublic(privateKey)>>
Candidates(privateKey) ==
  <<deriveSharedSecret(privateKey), privateKey, ReplacePrivateByPublic(privateKey)>>

\* the for loop of decryptKeyWithRSA over the candidates from position i on:
\* the first non-empty plain is returned, a throw leaves the function, and
\* '' is returned when every candidate gave ''
RECURSIVE TryCandidates(_, _, _)
TryCandidates(encryptedKey, cands, i) ==
  IF i > Len(cands) THEN {EMPTY}
  ELSE LET outs == AESDecryptOutcomes(encryptedKey, cands[i])
       IN  (outs \ {EMPTY}) \cup
           (IF EMPTY \in outs THEN TryCandidates(encryptedKey, cands, i + 1) ELSE {})

\* decryptKeyWithRSA: the set of results the call can have
decryptKeyWithRSA(encryptedKey, privateKey) ==
  TryCandidates(encryptedKey, Candidates(privateKey), 1)

\* hashFile and the SHA256 of FolderUpload's joined file hashes
hashFile(content) == <<"filehash", content>>
FolderHash(fileHashes) == <<"folderhash", fileHashes>>

\* ------------------------------------------------------------ blockchain.ts
ZERO == <<"0">>

calculateHash(index, timestamp, data, previousHash) ==
  <<"sha256", index, timestamp, data, previousHash>>


\* -------------------------------------------------------------- the store
Idle == [op |-> "idle"]
\* a session nobody is signed in to
Off == [op |-> "off"]
NoTail == [found |-> FALSE, block_index |-> -1, current_hash |-> ZERO]
NoRun == [inserted |-> FALSE]

Name(u) == <<"name", u>>

\* rows of a ledger table the SELECT policy shows to user u: the blocks u sent
\* or received
Visible(chain, u) ==
  {k \in 1..Len(chain) : chain[k].sender_id = u \/ chain[k].receiver_id = u}

\* .order("block_index", {ascending: false}).limit(1): a visible row with the
\* highest block_index (any of them when several share it), or no row
LatestBlocks(chain, u) ==
  LET vis == Visible(chain, u)
  IN  IF vis = {} THEN {NoTail}
      ELSE {[found |-> TRUE, block_index |-> chain[k].block_index,
             current_hash |-> chain[k].current_hash] :
              k \in {j \in vis : \A m \in vis :
                                   chain[m].block_index <= chain[j].block_index}}

\* .eq("block_index", idx).single(): the one visible row with that index;
\* no row or several rows are an error and data is null
SingleAt(chain, u, idx) ==
  LET rows == {k \in Visible(chain, u) : chain[k].block_index = idx}
  IN  IF Cardinality(rows) = 1
      THEN [found |-> TRUE, block_index |-> idx,
            current_hash |-> chain[CHOOSE k \in rows : TRUE].current_hash]
      ELSE NoTail

Row(index, timestamp, previousHash, hash, data, sender, receiver) ==
  [block_index |-> index, timestamp |-> timestamp, previous_hash |-> previousHash,
   current_hash |-> hash, data_json |-> data, sender_id |-> sender,
   receiver_id |-> receiver]

FilesOfFolder(folderId) ==
  {k \in 1..Len(encrypted_files) : encrypted_files[k].folder_id = folderId}

\* the positions of the rows a select returns, in table order
RECURSIVE RowsInOrder(_, _, _)
RowsInOrder(table, keep, k) ==
  IF k > Len(table) THEN <<>>
  ELSE (IF k \in keep THEN <<k>> ELSE <<>>) \o RowsInOrder(table, keep, k + 1)

Running(p) == proc[p].op \notin {"idle", "off"} /\ proc[p].pc # "done"

\* a session starts a handler when it runs none; sessions are interchangeable,
\* so the second one is used only while the first is busy
CanStart(p) ==
  /\ proc[p] # Off
  /\ ~Running(p)
  /\ nOps < cap
  /\ p = "p1" \/ Running("p1")

\* a reading of the clock: time has passed since the last reading, or not
ClockReadings == {t \in {now, now + 1} : t <= MaxClock}

Done(p, outcome, more) ==
  proc' = [proc EXCEPT ![p] = [op |-> proc[p].op, pc |-> "done", user |-> proc[p].user,
                               outcome |-> outcome, run |-> more]]

\* ---------------------------------------------- FolderUpload.handleUpload
\* profile lookup (54-60)
FolderUploadStart(p, u, n) ==
  /\ CanStart(p)
  /\ nOps' = nOps + 1
  /\ LET pub == profiles[u].public_key_pem
     IN  proc' = [proc EXCEPT ![p] =
           IF pub = NULL
           THEN [op |-> "FolderUpload", pc |-> "done", user |-> u,
                 outcome |-> "error", run |-> NoRun]
           ELSE [op |-> "FolderUpload", pc |-> "file", user |-> u, id |-> nOps + 1,
                 n |-> n, i |-> 1, pub |-> pub, successCount |-> 0,
                 fileHashes |-> <<>>]]
  /\ UNCHANGED <<now, cap, profiles, encrypted_files, encrypted_folders, encrypted_images,
                 medical_records, blockchain_renewed, blockchain, cx>>

\* file i of upload id: its AES key, ciphertext, hash and encrypted_files row
\* (74-116)
UploadedFile(id, i, user, pub) ==
  LET aesKey == <<"aes", id * 10 + i>>
      encryptedContent == AESEncrypt(<<"content", id, i>>, aesKey)
  IN  [id |-> <<id, i>>, folder_id |-> id, owner_id |-> user,
       receiver_id |-> "null", file_hash |-> hashFile(encryptedContent),
       encrypted_aes_key |-> encryptKeyWithRSA(aesKey, pub),
       receiver_encrypted_aes_key |-> NULL]

FolderRow(id, user, fileHashes, successCount) ==
  [id |-> id, folder_hash |-> FolderHash(fileHashes), owner_id |-> user,
   file_count |-> successCount, receiver_id |-> "null"]

FolderUploadData(id, user, fileHashes, successCount, timestamp) ==
  [folderId |-> id, folderName |-> <<"folder", id>>,
   folderHash |-> FolderHash(fileHashes), fileCount |-> successCount,
   senderId |-> user, receiverId |-> "null", action |-> "FOLDER_UPLOADED",
   timestamp |-> timestamp]

\* one turn of the file loop (67-123): encrypt, wrap the key for the owner,
\* upload to storage (an error there skips the file) and insert the
\* encrypted_files row (an error there is not looked at: the file counts)
FolderUploadFile(p) ==
  /\ proc[p].op = "FolderUpload" /\ proc[p].pc = "file"
  /\ LET s == proc[p]
         row == UploadedFile(s.id, s.i, s.user, s.pub)
         fileHash == row.file_hash
     IN  \E uploaded \in BOOLEAN, saved \in BOOLEAN :
           LET count == IF uploaded THEN s.successCount + 1 ELSE s.successCount
               next == [s EXCEPT !.i = s.i + 1, !.successCount = count,
                                 !.fileHashes = Append(s.fileHashes, fileHash)]
           IN  /\ encrypted_files' =
                    IF uploaded /\ saved
                    THEN Append(encrypted_files, row)
                    ELSE encrypted_files
               /\ IF s.i < s.n THEN proc' = [proc EXCEPT ![p] = next]
                  ELSE IF count > 0 THEN proc' = [proc EXCEPT ![p] = [next EXCEPT !.pc = "folder"]]
                  ELSE Done(p, "none", NoRun)
  /\ UNCHANGED <<now, nOps, cap, profiles, encrypted_folders, encrypted_images,
                 medical_records, blockchain_renewed, blockchain, cx>>

\* insert of the encrypted_folders row (125-141): the result is not looked at
FolderUploadFolder(p) ==
  /\ proc[p].op = "FolderUpload" /\ proc[p].pc = "folder"
  /\ LET s == proc[p]
     IN  /\ \E ok \in BOOLEAN :
              encrypted_folders' =
                IF ok
                THEN Append(encrypted_folders,
                            FolderRow(s.id, s.user, s.fileHashes, s.successCount))
                ELSE encrypted_folders
         /\ proc' = [proc EXCEPT ![p] = [s EXCEPT !.pc = "tail"]]
  /\ UNCHANGED <<now, nOps, cap, profiles, encrypted_files, encrypted_images,
                 medical_records, blockchain_renewed, blockchain, cx>>

\* the block of an upload (FolderUpload 151-178, MultiImageUpload 109-134):
\* the timestamp read once is the one hashed, stored in the payload and
\* inserted in the row
UploadBlockSkippingIndex(tail, timestamp, data, sender) ==
  LET newBlockIndex == IF tail.found THEN tail.block_index + 2 ELSE 0
      previousHash == IF tail.found THEN tail.current_hash ELSE ZERO
  IN  Row(newBlockIndex, timestamp, previousHash,
          calculateHash(newBlockIndex, timestamp, data, previousHash),
          data, sender, "null")
UploadBlock(tail, timestamp, data, sender) ==
  LET newBlockIndex == IF tail.found THEN tail.block_index + 1 ELSE 0
      previousHash == IF tail.found THEN tail.current_hash ELSE ZERO
  IN  Row(newBlockIndex, timestamp, previousHash,
          calculateHash(newBlockIndex, timestamp, data, previousHash),
          data, sender, "null")

\* read of the last block (143-153) and the block computed from it (155-168)
FolderUploadTail(p) ==
  /\ proc[p].op = "FolderUpload" /\ proc[p].pc = "tail"
  /\ now' \in ClockReadings
  /\ \E tail \in LatestBlocks(blockchain_renewed, proc[p].user) :
       LET s == proc[p]
           blockData == FolderUploadData(s.id, s.user, s.fileHashes, s.successCount, now')
       IN  proc' = [proc EXCEPT ![p] =
             [op |-> s.op, pc |-> "insert", user |-> s.user, tail |-> tail,
              block |-> UploadBlock(tail, now', blockData, s.user)]]
  /\ UNCHANGED <<nOps, cap, profiles, encrypted_files, encrypted_folders, encrypted_images,
                 medical_records, blockchain_renewed, blockchain, cx>>

\* insert of the block (170-178): the result is not looked at, success is
\* reported either way (180)
FolderUploadInsert(p) ==
  /\ proc[p].op = "FolderUpload" /\ proc[p].pc = "insert"
  /\ \E ok \in BOOLEAN :
       /\ blockchain_renewed' =
            IF ok THEN Append(blockchain_renewed, proc[p].block) ELSE blockchain_renewed
       /\ Done(p, "success", [tail |-> proc[p].tail, block |-> proc[p].block, inserted |-> ok])
  /\ UNCHANGED <<now, nOps, cap, profiles, encrypted_files, encrypted_folders, encrypted_images,
                 medical_records, blockchain, cx>>


\* -------------------------------------------- ShareFolderDialog.handleShare
\* the three tests on the keys looked up (106-119)
KeyNotFoundPublicOnly(receiverPublicKey, receiverPrivateKey, ownerPrivateKey) ==
  receiverPublicKey = NULL
KeyNotFound(receiverPublicKey, receiverPrivateKey, ownerPrivateKey) ==
  NULL \in {receiverPublicKey, receiverPrivateKey, ownerPrivateKey}

\* key lookups (76-119): the receiver's two keys come from one row; a lookup
\* that returns an error is thrown (96-98)
FolderShareStart(p, f, r) ==
  /\ CanStart(p)
  /\ f \in 1..Len(encrypted_folders)
  /\ r # encrypted_folders[f].owner_id
  /\ nOps' = nOps + 1
  /\ LET folder == encrypted_folders[f]
         receiverPublicKey == profiles[r].public_key_pem
         receiverPrivateKey == profiles[r].private_key_pem
         ownerPrivateKey == profiles[folder.owner_id].private_key_pem
     IN  \E ok \in BOOLEAN : proc' = [proc EXCEPT ![p] =
           IF ~ok
           THEN [op |-> "FolderShare", pc |-> "done", user |-> folder.owner_id,
                 outcome |-> "error", run |-> [inserted |-> FALSE, wrote |-> {}]]
           ELSE IF KeyNotFound(receiverPublicKey, receiverPrivateKey, ownerPrivateKey)
           THEN [op |-> "FolderShare", pc |-> "done", user |-> folder.owner_id,
                 outcome |-> "key_not_found", run |-> NoRun]
           ELSE [op |-> "FolderShare", pc |-> "files", user |-> folder.owner_id,
                 folder |-> folder, receiver |-> r,
                 receiverPublicKey |-> receiverPublicKey,
                 receiverPrivateKey |-> receiverPrivateKey,
                 ownerPrivateKey |-> ownerPrivateKey,
                 files |-> <<>>, i |-> 1, wrote |-> {}]]
  /\ UNCHANGED <<now, cap, profiles, encrypted_files, encrypted_folders, encrypted_images,
                 medical_records, blockchain_renewed, blockchain, cx>>

\* select of the folder's files (121-132)
FolderShareFiles(p) ==
  /\ proc[p].op = "FolderShare" /\ proc[p].pc = "files"
  /\ LET s == proc[p]
         files == RowsInOrder(encrypted_files, FilesOfFolder(s.folder.id), 1)
     IN  IF files = <<>>
         THEN Done(p, "no_files", NoRun)
         ELSE proc' = [proc EXCEPT ![p] = [s EXCEPT !.pc = "loop", !.files = files]]
  /\ UNCHANGED <<now, nOps, cap, profiles, encrypted_files, encrypted_folders, encrypted_images,
                 medical_records, blockchain_renewed, blockchain, cx>>

\* what follows the file loop: on to the folder update, or the next file
AfterFile(s) ==
  IF s.i < Len(s.files) THEN [s EXCEPT !.i = s.i + 1] ELSE [s EXCEPT !.pc = "folder"]

\* the check of line 151 on the key recovered with the receiver's private key
VerificationFails(verifiedKey, aesKey) ==
  verifiedKey = EMPTY \/ verifiedKey # aesKey

\* the update of a file row (158-164): the receiver and the key wrapped for
\* the receiver
SharedFileRowReplacingKey(file, receiver, receiverEncryptedKey) ==
  [file EXCEPT !.receiver_id = receiver, !.encrypted_aes_key = receiverEncryptedKey]
SharedFileRow(file, receiver, receiverEncryptedKey) ==
  [file EXCEPT !.receiver_id = receiver,
               !.receiver_encrypted_aes_key = receiverEncryptedKey]

\* one turn of the loop (135-170): unwrap with the owner's key, rewrap for the
\* receiver, verify, and update the file row at once
FolderShareFile(p) ==
  /\ proc[p].op = "FolderShare" /\ proc[p].pc = "loop"
  /\ LET s == proc[p]
         k == s.files[s.i]
         file == encrypted_files[k]
     IN  \E aesKey \in decryptKeyWithRSA(file.encrypted_aes_key, s.ownerPrivateKey) :
           IF aesKey = THROW
           THEN Done(p, "error", [inserted |-> FALSE, wrote |-> s.wrote]) /\ UNCHANGED encrypted_files
           ELSE IF aesKey = EMPTY
           THEN proc' = [proc EXCEPT ![p] = AfterFile(s)] /\ UNCHANGED encrypted_files
           ELSE LET receiverEncryptedKey == encryptKeyWithRSA(aesKey, s.receiverPublicKey)
                IN  \E verifiedKey \in decryptKeyWithRSA(receiverEncryptedKey, s.receiverPrivateKey) :
                      IF verifiedKey = THROW
                      THEN Done(p, "error", [inserted |-> FALSE, wrote |-> s.wrote])
                           /\ UNCHANGED encrypted_files
                      ELSE IF VerificationFails(verifiedKey, aesKey)
                      THEN Done(p, "verification_failed",
                                [inserted |-> FALSE, wrote |-> s.wrote, at |-> s.i])
                           /\ UNCHANGED encrypted_files
                      ELSE \E ok \in BOOLEAN :
                             IF ok
                             THEN /\ encrypted_files' = [encrypted_files EXCEPT ![k] =
                                       SharedFileRow(file, s.receiver, receiverEncryptedKey)]
                                  /\ proc' = [proc EXCEPT ![p] =
                                       AfterFile([s EXCEPT !.wrote = @ \cup {file.id}])]
                             ELSE /\ Done(p, "error", [inserted |-> FALSE, wrote |-> s.wrote])
                                  /\ UNCHANGED encrypted_files
  /\ UNCHANGED <<now, nOps, cap, profiles, encrypted_folders, encrypted_images,
                 medical_records, blockchain_renewed, blockchain, cx>>

PositionOfFolder(id) ==
  CHOOSE f \in 1..Len(encrypted_folders) : encrypted_folders[f].id = id

\* update of the folder row (172-178), then the payload with its own clock
\* reading (181-189)
FolderShareFolder(p) ==
  /\ proc[p].op = "FolderShare" /\ proc[p].pc = "folder"
  /\ now' \in ClockReadings
  /\ LET s == proc[p]
         blockData == [fileName |-> <<"Folder", s.folder.id, Len(s.files)>>,
                       fileHash |-> s.folder.folder_hash,
                       senderId |-> s.folder.owner_id, senderName |-> Name(s.folder.owner_id),
                       receiverId |-> s.receiver, receiverName |-> Name(s.receiver),
                       timestamp |-> now']
     IN  \E ok \in BOOLEAN :
           IF ok
           THEN /\ encrypted_folders' = [encrypted_folders EXCEPT
                     ![PositionOfFolder(s.folder.id)].receiver_id = s.receiver]
                /\ proc' = [proc EXCEPT ![p] =
                     [op |-> s.op, pc |-> "tail", user |-> s.user, folder |-> s.folder,
                      receiver |-> s.receiver, wrote |-> s.wrote, blockData |-> blockData]]
           ELSE /\ Done(p, "error", [inserted |-> FALSE, wrote |-> s.wrote])
                /\ UNCHANGED encrypted_folders
  /\ UNCHANGED <<nOps, cap, profiles, encrypted_files, encrypted_images,
                 medical_records, blockchain_renewed, blockchain, cx>>

\* read of the latest block (191-200) and the hash over a fresh clock reading
\* (203-209)
FolderShareTail(p) ==
  /\ proc[p].op = "FolderShare" /\ proc[p].pc = "tail"
  /\ now' \in ClockReadings
  /\ \E tail \in LatestBlocks(blockchain_renewed, proc[p].user) :
       LET s == proc[p]
           newBlockIndex == IF tail.found THEN tail.block_index + 1 ELSE 0
           previousHash == IF tail.found THEN tail.current_hash ELSE ZERO
           newHash == calculateHash(newBlockIndex, now', s.blockData, previousHash)
       IN  proc' = [proc EXCEPT ![p] =
             [op |-> s.op, pc |-> "insert", user |-> s.user, folder |-> s.folder,
              receiver |-> s.receiver, wrote |-> s.wrote, blockData |-> s.blockData,
              tail |-> tail, newBlockIndex |-> newBlockIndex,
              previousHash |-> previousHash, newHash |-> newHash]]
  /\ UNCHANGED <<nOps, cap, profiles, encrypted_files, encrypted_folders, encrypted_images,
                 medical_records, blockchain_renewed, blockchain, cx>>

\* insert of the block (211-223): the row carries no timestamp, the column
\* default now() fills it in; an insert error is thrown
FolderShareInsert(p) ==
  /\ proc[p].op = "FolderShare" /\ proc[p].pc = "insert"
  /\ now' \in ClockReadings
  /\ LET s == proc[p]
         block == Row(s.newBlockIndex, now', s.previousHash, s.newHash, s.blockData,
                      s.folder.owner_id, s.receiver)
     IN  \E ok \in BOOLEAN :
           IF ok
           THEN /\ blockchain_renewed' = Append(blockchain_renewed, block)
                /\ Done(p, "success", [inserted |-> TRUE, wrote |-> s.wrote,
                                       tail |-> s.tail, block |-> block])
           ELSE /\ UNCHANGED blockchain_renewed
                /\ Done(p, "error", [inserted |-> FALSE, wrote |-> s.wrote])
  /\ UNCHANGED <<nOps, cap, profiles, encrypted_files, encrypted_folders, encrypted_images,
                 medical_records, blockchain, cx>>

\* ------------------------------------------ MultiImageUpload.handleUpload
\* profile lookup (45-51)
ImageUploadStart(p, u, n) ==
  /\ CanStart(p)
  /\ nOps' = nOps + 1
  /\ LET pub == profiles[u].public_key_pem
     IN  proc' = [proc EXCEPT ![p] =
           IF pub = NULL
           THEN [op |-> "ImageUpload", pc |-> "done", user |-> u,
                 outcome |-> "error", run |-> NoRun]
           ELSE [op |-> "ImageUpload", pc |-> "image", user |-> u, id |-> nOps + 1,
                 n |-> n, i |-> 1, pub |-> pub, successCount |-> 0]]
  /\ UNCHANGED <<now, cap, profiles, encrypted_files, encrypted_folders, encrypted_images,
                 medical_records, blockchain_renewed, blockchain, cx>>

\* what follows one image: the next image, or the end of the handler (143-150)
AfterImage(p, s, count) ==
  IF s.i < s.n
  THEN proc' = [proc EXCEPT ![p] =
         [op |-> s.op, pc |-> "image", user |-> s.user, id |-> s.id, n |-> s.n,
          i |-> s.i + 1, pub |-> s.pub, successCount |-> count]]
  ELSE Done(p, IF count > 0 THEN "success" ELSE "none", NoRun)

\* storage upload and encrypted_images row of one image (56-99); when either
\* fails the catch of the loop goes on to the next image
ImageUploadImage(p) ==
  /\ proc[p].op = "ImageUpload" /\ proc[p].pc = "image"
  /\ LET s == proc[p]
         aesKey == <<"aes", s.id * 10 + s.i>>
         encryptedContent == AESEncrypt(<<"content", s.id, s.i>>, aesKey)
         encryptedAESKey == encryptKeyWithRSA(aesKey, s.pub)
         fileHash == hashFile(encryptedContent)
     IN  \E ok \in BOOLEAN :
           IF ok
           THEN /\ encrypted_images' = Append(encrypted_images,
                     [id |-> <<s.id, s.i>>, owner_id |-> s.user, receiver_id |-> "null",
                      file_hash |-> fileHash, encrypted_aes_key |-> encryptedAESKey,
                      receiver_encrypted_aes_key |-> NULL])
                /\ proc' = [proc EXCEPT ![p] = [s EXCEPT !.pc = "tail"]]
           ELSE /\ UNCHANGED encrypted_images
                /\ AfterImage(p, s, s.successCount)
  /\ UNCHANGED <<now, nOps, cap, profiles, encrypted_files, encrypted_folders,
                 medical_records, blockchain_renewed, blockchain, cx>>

\* read of the last block and the block computed from it (101-124)
ImageUploadTail(p) ==
  /\ proc[p].op = "ImageUpload" /\ proc[p].pc = "tail"
  /\ now' \in ClockReadings
  /\ \E tail \in LatestBlocks(blockchain_renewed, proc[p].user) :
       LET s == proc[p]
           encryptedContent == AESEncrypt(<<"content", s.id, s.i>>, <<"aes", s.id * 10 + s.i>>)
           blockData == [fileName |-> <<"file", s.id, s.i>>,
                         fileHash |-> hashFile(encryptedContent), senderId |-> s.user,
                         receiverId |-> "null", action |-> "IMAGE_UPLOADED",
                         timestamp |-> now']
       IN  proc' = [proc EXCEPT ![p] =
             [op |-> s.op, pc |-> "insert", user |-> s.user, id |-> s.id, n |-> s.n,
              i |-> s.i, pub |-> s.pub, successCount |-> s.successCount,
              block |-> UploadBlock(tail, now', blockData, s.user)]]
  /\ UNCHANGED <<nOps, cap, profiles, encrypted_files, encrypted_folders, encrypted_images,
                 medical_records, blockchain_renewed, blockchain, cx>>

\* insert of the block (126-136): the result is not looked at
ImageUploadInsert(p) ==
  /\ proc[p].op = "ImageUpload" /\ proc[p].pc = "insert"
  /\ \E ok \in BOOLEAN :
       /\ blockchain_renewed' =
            IF ok THEN Append(blockchain_renewed, proc[p].block) ELSE blockchain_renewed
       /\ AfterImage(p, proc[p], proc[p].successCount + 1)
  /\ UNCHANGED <<now, nOps, cap, profiles, encrypted_files, encrypted_folders, encrypted_images,
                 medical_records, blockchain, cx>>

\* --------------------------------------- UploadRecordSection.handleUpload
RecordRow(id, user) ==
  LET aesKey == <<"aes", id * 10>>
      encryptedContent == AESEncrypt(<<"content", id, 0>>, aesKey)
  IN  [id |-> id, owner_id |-> user, shared_with_id |-> "null",
       file_hash |-> hashFile(<<"content", id, 0>>),
       encrypted_file_path |-> encryptedContent, encrypted_aes_key |-> aesKey]

RecordUploadData(id, user, timestamp) ==
  [fileName |-> <<"file", id, 0>>, fileHash |-> RecordRow(id, user).file_hash,
   senderId |-> user, senderName |-> Name(user), timestamp |-> timestamp]

\* the medical_records row (38-73): the AES key itself is stored as
\* encrypted_aes_key; then the payload with its clock reading (76-82)
RecordUploadStart(p, u) ==
  /\ CanStart(p)
  /\ nOps' = nOps + 1
  /\ now' \in ClockReadings
  /\ LET id == nOps + 1
         blockData == RecordUploadData(id, u, now')
     IN  \E ok \in BOOLEAN :
           IF ok
           THEN /\ medical_records' = Append(medical_records, RecordRow(id, u))
                /\ proc' = [proc EXCEPT ![p] =
                     [op |-> "RecordUpload", pc |-> "latest", user |-> u,
                      blockData |-> blockData]]
           ELSE /\ UNCHANGED medical_records
                /\ proc' = [proc EXCEPT ![p] =
                     [op |-> "RecordUpload", pc |-> "done", user |-> u,
                      outcome |-> "error", run |-> NoRun]]
  /\ UNCHANGED <<cap, profiles, encrypted_files, encrypted_folders, encrypted_images,
                 blockchain_renewed, blockchain, cx>>

\* read of the latest block index (84-92)
RecordUploadLatest(p) ==
  /\ proc[p].op = "RecordUpload" /\ proc[p].pc = "latest"
  /\ \E latestBlock \in LatestBlocks(blockchain, proc[p].user) :
       LET s == proc[p]
           newBlockIndex == IF latestBlock.found THEN latestBlock.block_index + 1 ELSE 0
       IN  proc' = [proc EXCEPT ![p] =
             [op |-> s.op, pc |-> "previous", user |-> s.user, blockData |-> s.blockData,
              newBlockIndex |-> newBlockIndex]]
  /\ UNCHANGED <<now, nOps, cap, profiles, encrypted_files, encrypted_folders, encrypted_images,
                 medical_records, blockchain_renewed, blockchain, cx>>

\* read of the previous hash (94-101) and the hash over a fresh clock reading
\* (103-110)
RecordUploadPrevious(p) ==
  /\ proc[p].op = "RecordUpload" /\ proc[p].pc = "previous"
  /\ now' \in ClockReadings
  /\ LET s == proc[p]
         previousBlock == SingleAt(blockchain, s.user, s.newBlockIndex - 1)
         previousHash == IF previousBlock.found THEN previousBlock.current_hash ELSE ZERO
         calculatedHash == calculateHash(s.newBlockIndex, now', s.blockData, previousHash)
     IN  proc' = [proc EXCEPT ![p] =
           [op |-> s.op, pc |-> "insert", user |-> s.user, blockData |-> s.blockData,
            newBlockIndex |-> s.newBlockIndex, previousHash |-> previousHash,
            calculatedHash |-> calculatedHash]]
  /\ UNCHANGED <<nOps, cap, profiles, encrypted_files, encrypted_folders, encrypted_images,
                 medical_records, blockchain_renewed, blockchain, cx>>

\* UNIQUE(block_index) of table blockchain
UniqueBlockIndex(chain, index) ==
  \A k \in 1..Len(chain) : chain[k].block_index # index

\* insert of the block (112-121): no timestamp in the row, the column default
\* now() fills it in; the insert fails on a taken block_index; the result is
\* not looked at
RecordUploadInsert(p) ==
  /\ proc[p].op = "RecordUpload" /\ proc[p].pc = "insert"
  /\ now' \in ClockReadings
  /\ LET s == proc[p]
         block == Row(s.newBlockIndex, now', s.previousHash, s.calculatedHash,
                      s.blockData, s.user, "null")
     IN  \E ok \in BOOLEAN :
           LET inserted == ok /\ UniqueBlockIndex(blockchain, s.newBlockIndex)
           IN  /\ blockchain' = IF inserted THEN Append(blockchain, block) ELSE blockchain
               /\ Done(p, "success", [inserted |-> inserted, block |-> block])
  /\ UNCHANGED <<nOps, cap, profiles, encrypted_files, encrypted_folders, encrypted_images,
                 medical_records, blockchain_renewed, cx>>

\* ------------------------------------------ ShareRecordDialog.handleShare
\* profile lookups, the wrap of the stored key for the receiver (59-77) and
\* the update of the record (79-88); then the payload with its clock reading
RecordShareStart(p, m, r) ==
  /\ CanStart(p)
  /\ m \in 1..Len(medical_records)
  /\ r # medical_records[m].owner_id
  /\ nOps' = nOps + 1
  /\ now' \in ClockReadings
  /\ LET record == medical_records[m]
         pub == profiles[r].public_key_pem
         encryptedKey == IF pub # NULL THEN encryptKeyWithRSA(record.encrypted_aes_key, pub)
                         ELSE record.encrypted_aes_key
         blockData == [fileName |-> <<"file", record.id, 0>>, fileHash |-> record.file_hash,
                       senderId |-> record.owner_id, senderName |-> Name(record.owner_id),
                       receiverId |-> r, receiverName |-> Name(r), timestamp |-> now']
     IN  \E ok \in BOOLEAN :
           IF ok
           THEN /\ medical_records' = [medical_records EXCEPT ![m] =
                     [@ EXCEPT !.shared_with_id = r, !.encrypted_aes_key = encryptedKey]]
                /\ proc' = [proc EXCEPT ![p] =
                     [op |-> "RecordShare", pc |-> "latest", user |-> record.owner_id,
                      record |-> record.id, receiver |-> r, blockData |-> blockData]]
           ELSE /\ UNCHANGED medical_records
                /\ proc' = [proc EXCEPT ![p] =
                     [op |-> "RecordShare", pc |-> "done", user |-> record.owner_id,
                      outcome |-> "error", run |-> NoRun]]
  /\ UNCHANGED <<cap, profiles, encrypted_files, encrypted_folders, encrypted_images,
                 blockchain_renewed, blockchain, cx>>

\* read of the latest block index (101-109)
RecordShareLatest(p) ==
  /\ proc[p].op = "RecordShare" /\ proc[p].pc = "latest"
  /\ \E latestBlock \in LatestBlocks(blockchain_renewed, proc[p].user) :
       LET s == proc[p]
           newBlockIndex == IF latestBlock.found THEN latestBlock.block_index + 1 ELSE 0
       IN  proc' = [proc EXCEPT ![p] =
             [op |-> s.op, pc |-> "previous", user |-> s.user, record |-> s.record,
              receiver |-> s.receiver, blockData |-> s.blockData, tail |-> latestBlock,
              newBlockIndex |-> newBlockIndex]]
  /\ UNCHANGED <<now, nOps, cap, profiles, encrypted_files, encrypted_folders, encrypted_images,
                 medical_records, blockchain_renewed, blockchain, cx>>

\* read of the previous hash (111-118), the timestamp and the hash (120-128)
RecordSharePrevious(p) ==
  /\ proc[p].op = "RecordShare" /\ proc[p].pc = "previous"
  /\ now' \in ClockReadings
  /\ LET s == proc[p]
         previousBlock == SingleAt(blockchain_renewed, s.user, s.newBlockIndex - 1)
         previousHash == IF previousBlock.found THEN previousBlock.current_hash ELSE ZERO
         calculatedHash == calculateHash(s.newBlockIndex, now', s.blockData, previousHash)
     IN  proc' = [proc EXCEPT ![p] =
           [op |-> s.op, pc |-> "insert", user |-> s.user, record |-> s.record,
            receiver |-> s.receiver, tail |-> s.tail,
            block |-> Row(s.newBlockIndex, now', previousHash, calculatedHash,
                          s.blockData, s.user, s.receiver)]]
  /\ UNCHANGED <<nOps, cap, profiles, encrypted_files, encrypted_folders, encrypted_images,
                 medical_records, blockchain_renewed, blockchain, cx>>

\* insert of the block (130-139): the result is not looked at, success is
\* reported either way (141)
RecordShareInsert(p) ==
  /\ proc[p].op = "RecordShare" /\ proc[p].pc = "insert"
  /\ \E ok \in BOOLEAN :
       /\ blockchain_renewed' =
            IF ok THEN Append(blockchain_renewed, proc[p].block) ELSE blockchain_renewed
       /\ Done(p, "success", [inserted |-> ok, tail |-> proc[p].tail, block |-> proc[p].block])
  /\ UNCHANGED <<now, nOps, cap, profiles, encrypted_files, encrypted_folders, encrypted_images,
                 medical_records, blockchain, cx>>

\* ------------------------------------------- ViewRecordDialog.handleDecrypt
\* the value of a prop the parent does not pass
UNDEFINED == <<"undefined", "undefined">>

\* the records RecordsListSection lists for user u (loadRecords, 27-47)
ListedRecords(u) ==
  {m \in 1..Len(medical_records) :
     medical_records[m].owner_id = u \/ medical_records[m].shared_with_id = u}

\* the key the handler decrypts the content with (35-61): the stored key
\* as it is for the owner, the stored key unwrapped with the viewer's private
\* key for the receiver; THROW where the handler throws
ViewKeys(record, profileId, privateKey) ==
  LET isOwner == record.owner_id = profileId
      isReceiver == record.shared_with_id = profileId
  IN  IF ~isOwner /\ ~isReceiver THEN {THROW}
      ELSE IF isOwner THEN {record.encrypted_aes_key}
      ELSE IF privateKey \in {NULL, UNDEFINED} THEN {THROW}
      ELSE {IF aesKey = EMPTY THEN THROW ELSE aesKey :
              aesKey \in decryptKeyWithRSA(record.encrypted_aes_key, privateKey)}

\* handleDecrypt (28-80) on a listed record.  profile is the prop of the
\* dialog: RecordsListSection renders the dialog with profileId and without
\* profile (146-151), so it is undefined there; the other value is the
\* viewer's profile row, which is what the handler is written for
handleDecrypt(p, u, m, wired) ==
  /\ CanStart(p)
  /\ m \in ListedRecords(u)
  /\ nOps' = nOps + 1
  /\ LET record == medical_records[m]
         profileId == IF wired THEN u ELSE "undefined"
         privateKey == IF wired THEN profiles[u].private_key_pem ELSE UNDEFINED
     IN  \E aesKey \in ViewKeys(record, profileId, privateKey) :
         \E decrypted \in (IF aesKey = THROW THEN {THROW}
                           ELSE AESDecryptOutcomes(record.encrypted_file_path, aesKey)) :
           proc' = [proc EXCEPT ![p] =
             [op |-> "ViewRecord", pc |-> "done", user |-> u,
              outcome |-> IF decrypted \in {THROW, EMPTY} THEN "error" ELSE "success",
              run |-> [inserted |-> FALSE, record |-> record, aesKey |-> aesKey,
                       decryptedContent |-> IF decrypted \in {THROW, EMPTY}
                                            THEN NULL ELSE decrypted]]]
  /\ UNCHANGED <<now, cap, profiles, encrypted_files, encrypted_folders, encrypted_images,
                 medical_records, blockchain_renewed, blockchain, cx>>

\* ----------------------- EncryptedFoldersGallery and SharedFoldersGallery
\* the object FolderUpload stored at encrypted_path (upsert: false): the text
\* whose hash is the row's file_hash
StoredObject(file) == file.file_hash[2]

\* storage.download(encrypted_path) by user u: the SELECT policy of the bucket
\* shows an object to the user whose id starts its path, the uploader; a
\* download can fail for that user too
Downloads(file, u) ==
  IF file.owner_id = u THEN {StoredObject(file), THROW} ELSE {THROW}

\* the body a page address answers with
PAGE == <<"page">>

\* (await fetch(text)).blob(): a data URL gives its content; any other text is
\* taken as an address relative to the page ('' is the page itself), whose
\* response body becomes the blob whatever its status, or fetch rejects
Fetch(text) == IF text[1] = "content" THEN {text} ELSE {PAGE, THROW}

\* the folders a gallery lists for user u: those u received (loadSharedFolders)
\* or those u owns (loadFolders)
ListedFolders(u, shared) ==
  {encrypted_folders[f].id : f \in {g \in 1..Len(encrypted_folders) :
      IF shared THEN encrypted_folders[g].receiver_id = u
                ELSE encrypted_folders[g].owner_id = u}}

\* rows of encrypted_files the SELECT policy shows to user u
VisibleFiles(u) ==
  {k \in 1..Len(encrypted_files) :
     encrypted_files[k].owner_id = u \/ encrypted_files[k].receiver_id = u}

\* the wrapped key a gallery unwraps: receiver_encrypted_aes_key ||
\* encrypted_aes_key in the shared gallery, encrypted_aes_key in the owner's
WrappedKeyOf(file, shared) ==
  IF shared /\ file.receiver_encrypted_aes_key # NULL
  THEN file.receiver_encrypted_aes_key
  ELSE file.encrypted_aes_key

FileOutcome(end, failed, blob) == [end |-> end, failed |-> failed, blob |-> blob]

\* download, unwrap, decrypt and fetch of one file: how it can end ("thrown",
\* "no_key" when the unwrapped key is '', or "blob"), whether a
\* decryptKeyWithRSA or decryptWithAES call gave '' or threw, and the blob
FileOutcomes(file, u, privateKey, shared) ==
  UNION {
    IF encryptedContent = THROW THEN {FileOutcome("thrown", FALSE, NULL)}
    ELSE UNION {
      IF aesKey = THROW THEN {FileOutcome("thrown", TRUE, NULL)}
      ELSE IF aesKey = EMPTY THEN {FileOutcome("no_key", TRUE, NULL)}
      ELSE UNION {
        IF decryptedBase64 = THROW THEN {FileOutcome("thrown", TRUE, NULL)}
        ELSE {IF blob = THROW
              THEN FileOutcome("thrown", decryptedBase64 = EMPTY, NULL)
              ELSE FileOutcome("blob", decryptedBase64 = EMPTY, blob) :
                blob \in Fetch(decryptedBase64)} :
          decryptedBase64 \in AESDecryptOutcomes(encryptedContent, aesKey)} :
        aesKey \in decryptKeyWithRSA(WrappedKeyOf(file, shared), privateKey)} :
      encryptedContent \in Downloads(file, u)}

\* handleDecryptFile of either gallery on a listed file: private key lookup,
\* then the file; '' for the key is reported and ends the handler, a throw is
\* caught and reported, and the blob is handed to the browser as a download
handleDecryptFile(p, u, k, shared) ==
  /\ CanStart(p)
  /\ k \in VisibleFiles(u)
  /\ encrypted_files[k].folder_id \in ListedFolders(u, shared)
  /\ nOps' = nOps + 1
  /\ LET file == encrypted_files[k]
         privateKey == profiles[u].private_key_pem
     IN  IF privateKey = NULL
         THEN proc' = [proc EXCEPT ![p] =
                [op |-> "DecryptFile", pc |-> "done", user |-> u, outcome |-> "key_not_found",
                 run |-> [inserted |-> FALSE, failed |-> FALSE, delivered |-> {}]]]
         ELSE \E o \in FileOutcomes(file, u, privateKey, shared) :
                proc' = [proc EXCEPT ![p] =
                  [op |-> "DecryptFile", pc |-> "done", user |-> u,
                   outcome |-> CASE o.end = "blob" -> "success"
                                 [] o.end = "no_key" -> "key_failed"
                                 [] OTHER -> "error",
                   run |-> [inserted |-> FALSE, failed |-> o.failed,
                            delivered |-> IF o.end = "blob" THEN {o.blob} ELSE {}]]]
  /\ UNCHANGED <<now, cap, profiles, encrypted_files, encrypted_folders, encrypted_images,
                 medical_records, blockchain_renewed, blockchain, cx>>

\* the loop of handleDownloadFolder from file i on: a file whose key is '' is
\* skipped (continue), a file that throws is caught and skipped, and any
\* other file is added to the ZIP
RECURSIVE ZipOutcomes(_, _, _, _, _)
ZipOutcomes(files, i, u, privateKey, shared) ==
  IF i > Len(files) THEN {[failed |-> FALSE, zip |-> {}]}
  ELSE {[failed |-> o.failed \/ rest.failed,
         zip |-> (IF o.end = "blob" THEN {<<encrypted_files[files[i]].id, o.blob>>} ELSE {})
                   \cup rest.zip] :
          o \in FileOutcomes(encrypted_files[files[i]], u, privateKey, shared),
          rest \in ZipOutcomes(files, i + 1, u, privateKey, shared)}

\* handleDownloadFolder of either gallery on a listed folder: private key
\* lookup, select of the folder's files, the loop, and the ZIP handed to the
\* browser with the success message
handleDownloadFolder(p, u, f, shared) ==
  /\ CanStart(p)
  /\ f \in 1..Len(encrypted_folders)
  /\ encrypted_folders[f].id \in ListedFolders(u, shared)
  /\ nOps' = nOps + 1
  /\ LET privateKey == profiles[u].private_key_pem
         files == RowsInOrder(encrypted_files,
                              FilesOfFolder(encrypted_folders[f].id) \cap VisibleFiles(u), 1)
         Ended(outcome) ==
           [op |-> "DownloadFolder", pc |-> "done", user |-> u, outcome |-> outcome,
            run |-> [inserted |-> FALSE, failed |-> FALSE, delivered |-> {}]]
     IN  IF privateKey = NULL
         THEN proc' = [proc EXCEPT ![p] = Ended("key_not_found")]
         ELSE \E ok \in BOOLEAN :
                IF ~ok THEN proc' = [proc EXCEPT ![p] = Ended("error")]
                ELSE IF files = <<>> THEN proc' = [proc EXCEPT ![p] = Ended("no_files")]
                ELSE \E z \in ZipOutcomes(files, 1, u, privateKey, shared) :
                       proc' = [proc EXCEPT ![p] =
                         [op |-> "DownloadFolder", pc |-> "done", user |-> u,
                          outcome |-> "success",
                          run |-> [inserted |-> FALSE, failed |-> z.failed,
                                   delivered |-> {z.zip}]]]
  /\ UNCHANGED <<now, cap, profiles, encrypted_files, encrypted_folders, encrypted_images,
                 medical_records, blockchain_renewed, blockchain, cx>>

\* ------------------------------------------------------------- environment

\* the rows a profile can hold: both keys of one generateRSAKeyPair call, a
\* row whose halves stem from different calls, a row written before the
\* private_key_pem column existed, and a row without keys
Matched(x) ==
  [public_key_pem |-> generateRSAKeyPair(x).publicKey,
   private_key_pem |-> generateRSAKeyPair(x).privateKey]
Mismatched(x, y) ==
  [public_key_pem |-> generateRSAKeyPair(x).publicKey,
   private_key_pem |-> generateRSAKeyPair(y).privateKey]
PublicOnly(x) ==
  [public_key_pem |-> generateRSAKeyPair(x).publicKey, private_key_pem |-> NULL]
NoKeys == [public_key_pem |-> NULL, private_key_pem |-> NULL]

\* the directory after loadProfile has run once for every user
MatchedDirectory == [u \in Users |-> IF u = "u1" THEN Matched("a") ELSE Matched("b")]

\* the key directories the handlers are run against
KeyDirectories ==
  {MatchedDirectory,
   [u \in Users |-> IF u = "u1" THEN Matched("a") ELSE Mismatched("b", "c")],
   [u \in Users |-> IF u = "u1" THEN Mismatched("a", "c") ELSE Mismatched("b", "d")],
   [u \in Users |-> IF u = "u1" THEN Matched("a") ELSE PublicOnly("b")],
   [u \in Users |-> IF u = "u1" THEN Matched("a") ELSE NoKeys]}

\* the store before anything was uploaded
EmptyStore ==
  /\ encrypted_files = <<>>
  /\ encrypted_folders = <<>>
  /\ medical_records = <<>>
  /\ blockchain_renewed = <<>>
  /\ blockchain = <<>>

\* the store after user u1 has uploaded a folder of MaxFiles files and a
\* medical record (FolderUpload and UploadRecordSection, run one after the
\* other at time 0 on the empty store)
UploadedStore ==
  LET u == "u1"
      pub == profiles[u].public_key_pem
      files == [i \in 1..MaxFiles |-> UploadedFile(0, i, u, pub)]
      fileHashes == [i \in 1..MaxFiles |-> files[i].file_hash]
      data == RecordUploadData(0, u, 0)
  IN  /\ pub # NULL
      /\ encrypted_files = files
      /\ encrypted_folders = <<FolderRow(0, u, fileHashes, MaxFiles)>>
      /\ medical_records = <<RecordRow(0, u)>>
      /\ blockchain_renewed =
           <<UploadBlock(NoTail, 0, FolderUploadData(0, u, fileHashes, MaxFiles, 0), u)>>
      /\ blockchain = <<Row(0, 0, ZERO, calculateHash(0, 0, data, ZERO), data, u, "null")>>

InitWith(runs) ==
  /\ now = 0
  /\ nOps = 0
  /\ cap = runs
  /\ profiles \in KeyDirectories
  /\ encrypted_images = <<>>
  /\ proc = [p \in Procs |-> Idle]
  /\ cx = <<>>
  /\ \/ EmptyStore /\ profiles = MatchedDirectory
     \/ UploadedStore

\* one handler run
Init == InitWith(MaxOps)

\* one handler run more, so that two runs can overlap, with the keys
\* loadProfile generated
InitConcurrent == InitWith(MaxOps + 1) /\ profiles = MatchedDirectory

\* one folder share more, against any of the key directories
InitShare == InitWith(MaxOps + 1)

Next ==
  \/ \E p \in Procs, u \in Users, n \in 1..MaxFiles : FolderUploadStart(p, u, n)
  \/ \E p \in Procs : FolderUploadFile(p)
  \/ \E p \in Procs : FolderUploadFolder(p)
  \/ \E p \in Procs : FolderUploadTail(p)
  \/ \E p \in Procs : FolderUploadInsert(p)
  \/ \E p \in Procs, f \in 1..Len(encrypted_folders), r \in Users : FolderShareStart(p, f, r)
  \/ \E p \in Procs : FolderShareFiles(p)
  \/ \E p \in Procs : FolderShareFile(p)
  \/ \E p \in Procs : FolderShareFolder(p)
  \/ \E p \in Procs : FolderShareTail(p)
  \/ \E p \in Procs : FolderShareInsert(p)
  \/ \E p \in Procs, u \in Users, n \in 1..MaxFiles : ImageUploadStart(p, u, n)
  \/ \E p \in Procs : ImageUploadImage(p)
  \/ \E p \in Procs : ImageUploadTail(p)
  \/ \E p \in Procs : ImageUploadInsert(p)
  \/ \E p \in Procs, u \in Users : RecordUploadStart(p, u)
  \/ \E p \in Procs : RecordUploadLatest(p)
  \/ \E p \in Procs : RecordUploadPrevious(p)
  \/ \E p \in Procs : RecordUploadInsert(p)
  \/ \E p \in Procs, m \in 1..Len(medical_records), r \in Users : RecordShareStart(p, m, r)
  \/ \E p \in Procs : RecordShareLatest(p)
  \/ \E p \in Procs : RecordSharePrevious(p)
  \/ \E p \in Procs : RecordShareInsert(p)

Spec == Init /\ [][Next]_vars

SpecConcurrent == InitConcurrent /\ [][Next]_vars

\* the folder share handler alone: up to MaxOps + 1 runs of it, which may
\* overlap, on the uploaded folder
NextShare ==
  \/ \E p \in Procs, f \in 1..Len(encrypted_folders), r \in Users : FolderShareStart(p, f, r)
  \/ \E p \in Procs : FolderShareFiles(p)
  \/ \E p \in Procs : FolderShareFile(p)
  \/ \E p \in Procs : FolderShareFolder(p)
  \/ \E p \in Procs : FolderShareTail(p)
  \/ \E p \in Procs : FolderShareInsert(p)

SpecShare == InitShare /\ [][NextShare]_vars

\* one session that runs up to MaxOps handlers one after the other, with the
\* keys loadProfile generated
InitLedger ==
  /\ now = 0
  /\ nOps = 0
  /\ cap = MaxOps
  /\ profiles = MatchedDirectory
  /\ encrypted_images = <<>>
  /\ proc = [p \in Procs |-> IF p = "p1" THEN Idle ELSE Off]
  /\ cx = <<>>
  /\ EmptyStore \/ UploadedStore

\* the image upload and the two share handlers
NextLedger ==
  \/ \E p \in Procs, f \in 1..Len(encrypted_folders), r \in Users : FolderShareStart(p, f, r)
  \/ \E p \in Procs : FolderShareFiles(p)
  \/ \E p \in Procs : FolderShareFile(p)
  \/ \E p \in Procs : FolderShareFolder(p)
  \/ \E p \in Procs : FolderShareTail(p)
  \/ \E p \in Procs : FolderShareInsert(p)
  \/ \E p \in Procs, u \in Users, n \in 1..MaxFiles : ImageUploadStart(p, u, n)
  \/ \E p \in Procs : ImageUploadImage(p)
  \/ \E p \in Procs : ImageUploadTail(p)
  \/ \E p \in Procs : ImageUploadInsert(p)
  \/ \E p \in Procs, m \in 1..Len(medical_records), r \in Users : RecordShareStart(p, m, r)
  \/ \E p \in Procs : RecordShareLatest(p)
  \/ \E p \in Procs : RecordSharePrevious(p)
  \/ \E p \in Procs : RecordShareInsert(p)

SpecLedger == InitLedger /\ [][NextLedger]_vars

\* the folder share and the decrypt and download handlers of the two galleries
NextDecrypt ==
  \/ \E p \in Procs, f \in 1..Len(encrypted_folders), r \in Users : FolderShareStart(p, f, r)
  \/ \E p \in Procs : FolderShareFiles(p)
  \/ \E p \in Procs : FolderShareFile(p)
  \/ \E p \in Procs : FolderShareFolder(p)
  \/ \E p \in Procs : FolderShareTail(p)
  \/ \E p \in Procs : FolderShareInsert(p)
  \/ \E p \in Procs, u \in Users, k \in 1..Len(encrypted_files), shared \in BOOLEAN :
       handleDecryptFile(p, u, k, shared)
  \/ \E p \in Procs, u \in Users, f \in 1..Len(encrypted_folders), shared \in BOOLEAN :
       handleDownloadFolder(p, u, f, shared)

SpecDecrypt == InitShare /\ [][NextDecrypt]_vars


\* ------------------------------------------- the functions of encryption.ts
\* A content key k is wrapped under the public key of pair x1, unwrapped with
\* the private key of pair y, and what was recovered is wrapped again under
\* the public key of pair x2 and unwrapped with that pair's private key.
Bodies == {"a", "b", "c"}

InitCrypto ==
  /\ now = 0
  /\ nOps = 0
  /\ cap = 0
  /\ profiles = [u \in Users |-> NoKeys]
  /\ encrypted_images = <<>>
  /\ EmptyStore
  /\ proc = [p \in Procs |-> Idle]
  /\ cx \in [pc : {"wrap"}, k : AESKeys, x1 : Bodies, y : Bodies, x2 : Bodies,
             w1 : {EMPTY}, r1 : {EMPTY}, w2 : {EMPTY}, r2 : {EMPTY}]

CryptoFrame ==
  UNCHANGED <<now, nOps, cap, profiles, encrypted_files, encrypted_folders,
              encrypted_images, medical_records, blockchain_renewed, blockchain, proc>>

WrapKey ==
  /\ cx # <<>> /\ cx.pc = "wrap"
  /\ cx' = [cx EXCEPT !.pc = "unwrap",
                      !.w1 = encryptKeyWithRSA(cx.k, generateRSAKeyPair(cx.x1).publicKey)]
  /\ CryptoFrame

UnwrapKey ==
  /\ cx # <<>> /\ cx.pc = "unwrap"
  /\ \E r \in decryptKeyWithRSA(cx.w1, generateRSAKeyPair(cx.y).privateKey) :
       cx' = [cx EXCEPT !.pc = "rewrap", !.r1 = r]
  /\ CryptoFrame

RewrapKey ==
  /\ cx # <<>> /\ cx.pc = "rewrap"
  /\ cx.r1 \notin {EMPTY, THROW}
  /\ cx' = [cx EXCEPT !.pc = "unwrap2",
                      !.w2 = encryptKeyWithRSA(cx.r1, generateRSAKeyPair(cx.x2).publicKey)]
  /\ CryptoFrame

UnwrapRewrapped ==
  /\ cx # <<>> /\ cx.pc = "unwrap2"
  /\ \E r \in decryptKeyWithRSA(cx.w2, generateRSAKeyPair(cx.x2).privateKey) :
       cx' = [cx EXCEPT !.pc = "done", !.r2 = r]
  /\ CryptoFrame

NextCrypto == WrapKey \/ UnwrapKey \/ RewrapKey \/ UnwrapRewrapped

SpecCrypto == InitCrypto /\ [][NextCrypto]_vars

\* ------------------------------------------- the Blockchain class
\* A Blockchain object is built by addBlock calls; its array, handed out by
\* getChain, may then have one field of one block changed, and isChainValid is
\* called.  cx holds the object: chain is this.chain.
MaxBlocks == 3     \* addBlock calls on one Blockchain object

PayloadNames == {"P1", "P2"}

\* a BlockData (3-11)
BlockData(name, timestamp) ==
  [fileName |-> name, fileHash |-> <<"filehash", name>>, senderId |-> "u1",
   senderName |-> Name("u1"), timestamp |-> timestamp]

\* clock readings that may follow a reading of t
ReadingsAfter(t) == {u \in {t, t + 1} : u <= MaxClock}

\* createGenesisBlock (28-44): the clock is read for the payload, for the
\* block's timestamp and for the hash
createGenesisBlock(t1, t2, t3) ==
  LET genesisData == [fileName |-> "Genesis Block", fileHash |-> ZERO,
                      senderId |-> "system", senderName |-> Name("system"),
                      timestamp |-> t1]
  IN  [index |-> 0, timestamp |-> t2, data |-> genesisData, previousHash |-> ZERO,
       hash |-> calculateHash(0, t3, genesisData, ZERO)]

\* addBlock (56-71): the block pushed on chain; genesis is the value of the
\* createGenesisBlock call made when the chain is empty
addBlockHashingPreviousIndex(chain, data, genesis, timestamp) ==
  LET previousBlock == IF Len(chain) > 0 THEN chain[Len(chain)] ELSE genesis
  IN  [index |-> previousBlock.index + 1, timestamp |-> timestamp, data |-> data,
       previousHash |-> previousBlock.hash,
       hash |-> calculateHash(previousBlock.index, timestamp, data, previousBlock.hash)]
addBlock(chain, data, genesis, timestamp) ==
  LET previousBlock == IF Len(chain) > 0 THEN chain[Len(chain)] ELSE genesis
      newIndex == previousBlock.index + 1
  IN  [index |-> newIndex, timestamp |-> timestamp, data |-> data,
       previousHash |-> previousBlock.hash,
       hash |-> calculateHash(newIndex, timestamp, data, previousBlock.hash)]

\* isChainValid (73-97): the loop starts at the second block of the array
isChainValid(chain) ==
  \A i \in 2..Len(chain) :
    LET currentBlock == chain[i]
        previousBlock == chain[i - 1]
        calculatedHash == calculateHash(currentBlock.index, currentBlock.timestamp,
                                        currentBlock.data, currentBlock.previousHash)
    IN  /\ currentBlock.hash = calculatedHash
        /\ currentBlock.previousHash = previousBlock.hash

InitChain ==
  /\ now = 0
  /\ nOps = 0
  /\ cap = 0
  /\ profiles = [u \in Users |-> NoKeys]
  /\ encrypted_images = <<>>
  /\ EmptyStore
  /\ proc = [p \in Procs |-> Idle]
  /\ cx = [pc |-> "build", chain |-> <<>>, field |-> "none", at |-> 0, valid |-> FALSE,
           shown |-> FALSE]

\* this.chain.push(newBlock) (70)
pushOverLatestBlock(chain, block) ==
  IF chain = <<>> THEN <<block>> ELSE [chain EXCEPT ![Len(chain)] = block]
push(chain, block) == Append(chain, block)

\* one addBlock call
AddBlock ==
  /\ cx.pc = "build" /\ Len(cx.chain) < MaxBlocks
  /\ \E name \in PayloadNames, t0 \in ReadingsAfter(now) :
      \E t1 \in ReadingsAfter(t0) : \E t2 \in ReadingsAfter(t1) :
      \E t3 \in ReadingsAfter(t2) : \E t4 \in ReadingsAfter(t3) :
        /\ Len(cx.chain) > 0 => t1 = t0 /\ t2 = t0 /\ t3 = t0
        /\ now' = t4
        /\ cx' = [cx EXCEPT !.chain = push(@,
                     addBlock(cx.chain, BlockData(name, t0),
                              createGenesisBlock(t1, t2, t3), t4))]
  /\ UNCHANGED <<nOps, cap, profiles, encrypted_files, encrypted_folders,
                 encrypted_images, medical_records, blockchain_renewed, blockchain, proc>>

TAMPERED == <<"tampered">>

\* block b with one field given another value
Tampered(b, field) ==
  CASE field = "index" -> [b EXCEPT !.index = @ + 1]
    [] field = "timestamp" -> [b EXCEPT !.timestamp = @ + 1]
    [] field = "data" -> [b EXCEPT !.data = [@ EXCEPT !.fileName = "other"]]
    [] field = "previousHash" -> [b EXCEPT !.previousHash = TAMPERED]
    [] field = "hash" -> [b EXCEPT !.hash = TAMPERED]

\* a write to one field of one block of the array of getChain (99-105)
TamperBlock ==
  /\ cx.pc = "build"
  /\ \E i \in 1..Len(cx.chain),
        field \in {"index", "timestamp", "data", "previousHash", "hash"} :
       cx' = [cx EXCEPT !.pc = "tampered", !.field = field, !.at = i,
                        !.chain = [@ EXCEPT ![i] = Tampered(@, field)]]
  /\ CryptoFrame

\* the ledger row of a block
RowOfBlock(b) ==
  [block_index |-> b.index, timestamp |-> b.timestamp, previous_hash |-> b.previousHash,
   current_hash |-> b.hash, data_json |-> b.data]

\* validateChain of the blockchain views over rows ordered by block_index:
\* true for no rows, false at the first row whose previous_hash is not the
\* current_hash of the row before it
validateChain(chainData) ==
  \A i \in 2..Len(chainData) :
    LET currentBlock == chainData[i]
        previousBlock == chainData[i - 1]
    IN  currentBlock.previous_hash = previousBlock.current_hash

\* one isChainValid call, and one validateChain call on the rows of the same
\* blocks
ValidateChain ==
  /\ cx.pc \in {"build", "tampered"}
  /\ cx' = [cx EXCEPT !.pc = "validated", !.valid = isChainValid(cx.chain),
                      !.shown = validateChain([i \in 1..Len(cx.chain) |->
                                                 RowOfBlock(cx.chain[i])])]
  /\ CryptoFrame

NextChain == AddBlock \/ TamperBlock \/ ValidateChain

SpecChain == InitChain /\ [][NextChain]_vars

\* operations that append a block: the folder share, which inserts into
\* blockchain_renewed, run by one session, and addBlock on a Blockchain object
InitAppend ==
  /\ now = 0
  /\ nOps = 0
  /\ cap = MaxOps
  /\ profiles = MatchedDirectory
  /\ encrypted_images = <<>>
  /\ proc = [p \in Procs |-> IF p = "p1" THEN Idle ELSE Off]
  /\ cx = [pc |-> "build", chain |-> <<>>, field |-> "none", at |-> 0, valid |-> FALSE,
           shown |-> FALSE]
  /\ EmptyStore \/ UploadedStore

NextAppend ==
  \/ NextShare
  \/ AddBlock

SpecAppend == InitAppend /\ [][NextAppend]_vars

\* the medical record u1 uploaded, shared and viewed: one session that runs
\* one handler more, so that a share can follow a share and a view a share
InitRecord ==
  /\ now = 0
  /\ nOps = 0
  /\ cap = MaxOps + 1
  /\ profiles = MatchedDirectory
  /\ encrypted_images = <<>>
  /\ proc = [p \in Procs |-> IF p = "p1" THEN Idle ELSE Off]
  /\ cx = <<>>
  /\ UploadedStore

NextRecord ==
  \/ \E p \in Procs, m \in 1..Len(medical_records), r \in Users : RecordShareStart(p, m, r)
  \/ \E p \in Procs : RecordShareLatest(p)
  \/ \E p \in Procs : RecordSharePrevious(p)
  \/ \E p \in Procs : RecordShareInsert(p)
  \/ \E p \in Procs, u \in Users, m \in 1..Len(medical_records), wired \in BOOLEAN :
       handleDecrypt(p, u, m, wired)

SpecRecord == InitRecord /\ [][NextRecord]_vars

\* ------------------------------------- JSON.stringify(data) in calculateHash
\* calculateHash hashes JSON.stringify(data), the properties of data in the
\* order they were inserted; a jsonb column returns an object with its keys
\* in jsonb order.  Here a payload is the sequence of its <<key, value>>
\* pairs in insertion order, so that the hash is taken over that order.
\* cx holds two payloads a and b with the same pairs, their hashes, the row
\* stored for a and the hash of the payload read back.
PayloadKeys == <<"folderId", "senderId", "action">>

\* the number of bytes of a key and the keys in ascending byte order
KeyLength == [k \in {"folderId", "senderId", "action"} |->
                IF k = "action" THEN 6 ELSE 8]
ByteOrder == <<"action", "folderId", "senderId">>
ByteRank(k) == CHOOSE i \in 1..Len(ByteOrder) : ByteOrder[i] = k

\* jsonb keeps the keys of an object sorted by length, then by bytes
JsonbBefore(k1, k2) ==
  \/ KeyLength[k1] < KeyLength[k2]
  \/ KeyLength[k1] = KeyLength[k2] /\ ByteRank(k1) < ByteRank(k2)

Pairs(obj) == {obj[i] : i \in 1..Len(obj)}

\* the objects that hold the pairs S, one for each insertion order
Orderings(S) ==
  {obj \in [1..Cardinality(S) -> S] : \A i, j \in 1..Cardinality(S) : i # j => obj[i] # obj[j]}

\* the object a jsonb column gives back for the object written to it
jsonb(obj) ==
  CHOOSE stored \in Orderings(Pairs(obj)) :
    \A i, j \in 1..Len(stored) : i < j => JsonbBefore(stored[i][1], stored[j][1])

\* the blockData literal of FolderUpload (155-164), cut to PayloadKeys
FolderUploadObject(folder, sender) ==
  <<<<"folderId", folder>>, <<"senderId", sender>>, <<"action", "FOLDER_UPLOADED">>>>

InitHash ==
  /\ now \in 0..MaxClock
  /\ nOps = 0
  /\ cap = 0
  /\ profiles = [u \in Users |-> NoKeys]
  /\ encrypted_images = <<>>
  /\ EmptyStore
  /\ proc = [p \in Procs |-> Idle]
  /\ \E folder \in 0..1, sender \in Users, index \in 0..1 :
     \E b \in Orderings(Pairs(FolderUploadObject(folder, sender))) :
       cx = [pc |-> "new", a |-> FolderUploadObject(folder, sender), b |-> b,
             index |-> index, hashA |-> ZERO, hashB |-> ZERO,
             stored |-> <<>>, rehash |-> ZERO]

\* calculateHash of both payloads for one index, timestamp and previous hash
HashPayloads ==
  /\ cx.pc = "new"
  /\ cx' = [cx EXCEPT !.pc = "hashed",
                      !.hashA = calculateHash(cx.index, now, cx.a, ZERO),
                      !.hashB = calculateHash(cx.index, now, cx.b, ZERO)]
  /\ CryptoFrame

\* the insert of a's row: data_json goes into a jsonb column
StorePayload ==
  /\ cx.pc = "hashed"
  /\ cx' = [cx EXCEPT !.pc = "stored", !.stored = jsonb(cx.a)]
  /\ CryptoFrame

\* calculateHash of the payload read back from the row
RehashStored ==
  /\ cx.pc = "stored"
  /\ cx' = [cx EXCEPT !.pc = "reread",
                      !.rehash = calculateHash(cx.index, now, cx.stored, ZERO)]
  /\ CryptoFrame

NextHash == HashPayloads \/ StorePayload \/ RehashStored

SpecHash == InitHash /\ [][NextHash]_vars

\* ==================================================================== claims
Chain == blockchain_renewed

DoneRuns(ops) ==
  {p \in Procs : proc[p].op \in ops /\ proc[p].pc = "done"}

\* C1: every block of the persisted ledger with index i > 0 has a
\* previous_hash equal to the stored hash of the block with index i-1: there
\* is a block with index i-1, and whichever block has that index, its hash is
\* the previous_hash
C1_PreviousHashIsHashOfPreviousIndex ==
  \A k \in 1..Len(Chain) :
    Chain[k].block_index > 0 =>
      /\ \E j \in 1..Len(Chain) : Chain[j].block_index = Chain[k].block_index - 1
      /\ \A j \in 1..Len(Chain) :
           Chain[j].block_index = Chain[k].block_index - 1
             => Chain[k].previous_hash = Chain[j].current_hash

\* C2: of the writers that read the same tail and then insert, at most one
\* has its block in the ledger
C2_OneInsertPerTail ==
  \A p, q \in DoneRuns({"FolderUpload", "FolderShare", "RecordShare"}) :
    (p # q /\ proc[p].run.inserted /\ proc[q].run.inserted)
      => proc[p].run.tail # proc[q].run.tail

\* C3: a folder share that stops on a failed rewrap verification has updated
\* no file of the folder, has not updated the folder and has appended no block
C3_VerificationFailureWritesNothing ==
  \A p \in DoneRuns({"FolderShare"}) :
    proc[p].outcome = "verification_failed"
      => proc[p].run.wrote = {} /\ ~proc[p].run.inserted

\* the verification failed on a file that was not the first of the folder
C3_Witness ==
  \E p \in DoneRuns({"FolderShare"}) :
    proc[p].outcome = "verification_failed" /\ proc[p].run.at > 1

ShareBlockFor(name, sender, receiver) ==
  \E k \in 1..Len(Chain) :
    /\ Chain[k].receiver_id = receiver
    /\ Chain[k].sender_id = sender
    /\ Chain[k].data_json.fileName[1] = name[1]
    /\ Chain[k].data_json.fileName[2] = name[2]

\* C4: every object that carries a key wrapped for recipient R is matched by a
\* ledger block that records the share to R
C4_LedgerBlockBeforeReceiverKey ==
  /\ \A k \in 1..Len(encrypted_files) :
       encrypted_files[k].receiver_encrypted_aes_key # NULL
         => ShareBlockFor(<<"Folder", encrypted_files[k].folder_id>>,
                          encrypted_files[k].owner_id, encrypted_files[k].receiver_id)
  /\ \A m \in 1..Len(medical_records) :
       medical_records[m].shared_with_id # "null"
         => ShareBlockFor(<<"file", medical_records[m].id>>,
                          medical_records[m].owner_id, medical_records[m].shared_with_id)

\* C5: of two shares that ran against the same tail and both reported
\* success, one has its block at index tail+1 and the other at index tail+2
\* with the first one's hash as previous_hash
C5_LoserAppendsAfterWinner ==
  \A p, q \in DoneRuns({"FolderShare", "RecordShare"}) :
    (/\ p # q
     /\ proc[p].outcome = "success" /\ proc[q].outcome = "success"
     /\ proc[p].run.tail.found /\ proc[p].run.tail = proc[q].run.tail)
      => \E w \in {p, q} : \E l \in {p, q} \ {w} :
           /\ proc[w].run.block.block_index = proc[p].run.tail.block_index + 1
           /\ proc[l].run.block.block_index = proc[p].run.tail.block_index + 2
           /\ proc[l].run.block.previous_hash = proc[w].run.block.current_hash

\* C6: a share never reports success without its block in the ledger
C6_SuccessHasBlock ==
  \A p \in DoneRuns({"FolderShare", "RecordShare"}) :
    proc[p].outcome = "success"
      => /\ proc[p].run.inserted
         /\ \E k \in 1..Len(Chain) : Chain[k] = proc[p].run.block

HashOfRow(row) ==
  calculateHash(row.block_index, row.timestamp, row.data_json, row.previous_hash)

\* C7: every persisted block stores the hash of its own stored index,
\* timestamp, payload and previous_hash
C7_StoredHashIsHashOfRow ==
  /\ \A k \in 1..Len(blockchain_renewed) :
       blockchain_renewed[k].current_hash = HashOfRow(blockchain_renewed[k])
  /\ \A k \in 1..Len(blockchain) :
       blockchain[k].current_hash = HashOfRow(blockchain[k])

\* C8: a content key wrapped under one pair's public key, unwrapped with that
\* pair's private key, wrapped under a second pair's public key and unwrapped
\* with the second pair's private key is the content key
C8_RewrapPreservesKey ==
  (cx # <<>> /\ cx.pc = "done" /\ cx.y = cx.x1) => cx.r2 = cx.k

C8_Witness ==
  cx # <<>> /\ cx.pc = "done" /\ cx.y = cx.x1 /\ cx.x2 # cx.x1 /\ cx.r2 = cx.k

\* C9: a content key of generateAESKey wrapped under the public key of a pair
\* of generateRSAKeyPair and unwrapped with the private key of the same pair
\* is the content key
C9_WrapUnwrapRoundTrip ==
  (cx # <<>> /\ cx.pc \in {"rewrap", "unwrap2", "done"} /\ cx.y = cx.x1) => cx.r1 = cx.k

C9_Witness ==
  cx # <<>> /\ cx.pc = "rewrap" /\ cx.y = cx.x1 /\ cx.r1 = cx.k

\* C10: unwrapping with the private key of another pair than the one whose
\* public key wrapped the content key yields a failure ('' or an exception),
\* never a key value
C10_ForeignKeyUnwrapFails ==
  (cx # <<>> /\ cx.pc \in {"rewrap", "unwrap2", "done"} /\ cx.y # cx.x1)
    => cx.r1 \in {EMPTY, THROW}


\* C11: no step of a folder share changes or removes the key wrapped for the
\* owner (encrypted_aes_key) of any file
C11_OwnerKeyUnchanged ==
  [][\A k \in 1..Len(encrypted_files) :
       /\ k <= Len(encrypted_files')
       /\ encrypted_files'[k].encrypted_aes_key = encrypted_files[k].encrypted_aes_key]_vars

\* a file was shared twice: it carries a receiver's key and a second share
\* has written it again
C11_Witness ==
  \E p, q \in DoneRuns({"FolderShare"}) :
    /\ p # q
    /\ proc[p].run.inserted /\ proc[q].run.inserted
    /\ proc[p].run.wrote # {} /\ proc[p].run.wrote = proc[q].run.wrote


\* C12: isChainValid returns true on every chain built by addBlock calls on a
\* fresh Blockchain
C12_BuiltChainIsValid ==
  (cx.pc = "validated" /\ cx.field = "none") => cx.valid

C12_Witness ==
  cx.pc = "validated" /\ cx.field = "none" /\ Len(cx.chain) = MaxBlocks /\ cx.valid

\* C13: isChainValid returns false once any single field of any block of a
\* chain built by addBlock was changed
C13_TamperingIsDetected ==
  (cx.pc = "validated" /\ cx.field # "none") => ~cx.valid

\* C14: the first block of a chain built by addBlock is the genesis block,
\* with index 0 and previous_hash "0", and every later block has the index of
\* the block before it plus one and that block's hash as previous_hash
C14_AppendStartsAtGenesis ==
  (cx.pc = "build" /\ Len(cx.chain) > 0)
    => /\ cx.chain[1].index = 0
       /\ cx.chain[1].previousHash = ZERO
       /\ \A i \in 2..Len(cx.chain) :
            /\ cx.chain[i].index = cx.chain[i - 1].index + 1
            /\ cx.chain[i].previousHash = cx.chain[i - 1].hash


IndicesHaveNoGap(chain) ==
  /\ Len(chain) > 0 => chain[1].block_index = 0
  /\ \A k \in 1..Len(chain) :
       \/ chain[k].block_index = 0
       \/ \E j \in 1..Len(chain) : chain[j].block_index = chain[k].block_index - 1

LacksKey(u) ==
  NULL \in {profiles[u].public_key_pem, profiles[u].private_key_pem}

C17_StoppedShareWritesNothing ==
  \A p \in DoneRuns({"FolderShare"}) :
    (proc[p].outcome = "error" /\ ~proc[p].run.inserted) => proc[p].run.wrote = {}

\* a stored key field that is empty or holds a key wrapped by encryptKeyWithRSA
\* under the secret of a user's public_key_pem
IsWrappedKey(k) ==
  \/ k = NULL
  \/ /\ k[1] = "enc"
     /\ \E u \in Users :
          /\ profiles[u].public_key_pem # NULL
          /\ k[2] = deriveSharedSecret(profiles[u].public_key_pem)

\* C18: every stored encrypted_aes_key and receiver_encrypted_aes_key, of
\* files, images and medical records, is a content key wrapped under a
\* participant's public key, never the content key itself
C18_NoUnwrappedKeyIsStored ==
  /\ \A k \in 1..Len(encrypted_files) :
       /\ IsWrappedKey(encrypted_files[k].encrypted_aes_key)
       /\ IsWrappedKey(encrypted_files[k].receiver_encrypted_aes_key)
  /\ \A k \in 1..Len(encrypted_images) :
       /\ IsWrappedKey(encrypted_images[k].encrypted_aes_key)
       /\ IsWrappedKey(encrypted_images[k].receiver_encrypted_aes_key)
  /\ \A m \in 1..Len(medical_records) :
       IsWrappedKey(medical_records[m].encrypted_aes_key)

\* C19: a decrypt or download run in which a decryptKeyWithRSA or
\* decryptWithAES call gave '' or threw does not report success and hands
\* nothing to the browser
C19_FailedDecryptionIsAnError ==
  \A p \in DoneRuns({"DecryptFile", "DownloadFolder"}) :
    proc[p].run.failed => proc[p].outcome # "success" /\ proc[p].run.delivered = {}

\* C20: a share reports success exactly when it has added its one block to
\* the ledger: a share reported as successful has inserted a block, and a
\* share that ended otherwise has inserted none
C20_SuccessIffOneBlock ==
  \A p \in DoneRuns({"FolderShare", "RecordShare"}) :
    (proc[p].outcome = "success") <=> proc[p].run.inserted

\* the rows of a table are all in the later table, each at its position
RowsKept(table, later) ==
  \A k \in 1..Len(table) : k <= Len(later) /\ later[k] = table[k]

C22_HashIgnoresFieldOrder ==
  /\ cx.pc \in {"hashed", "stored", "reread"} => cx.hashA = cx.hashB
  /\ cx.pc = "reread" => cx.rehash = cx.hashA

\* C23: on every sequence of blocks validateChain gives the verdict of
\* isChainValid
C23_ValidateChainIsIsChainValid ==
  cx.pc = "validated" => cx.shown = cx.valid

\* the key the content of a medical record was encrypted under
ContentKeyOf(record) == record.encrypted_file_path[2]

\* C24: whatever shares a medical record went through, unwrapping its stored
\* key with the private key of the user it is shared with gives the key its
\* content was encrypted under
C24_RecipientRecoversContentKey ==
  \A m \in 1..Len(medical_records) :
    LET record == medical_records[m]
    IN  record.shared_with_id # "null"
          => decryptKeyWithRSA(record.encrypted_aes_key,
                               profiles[record.shared_with_id].private_key_pem)
               = {ContentKeyOf(record)}

\* C25: when the owner of a medical record that has been shared views it, the
\* key the handler decrypts with is the key the content was encrypted under,
\* and the content is shown
C25_OwnerStillDecrypts ==
  \A p \in DoneRuns({"ViewRecord"}) :
    LET record == proc[p].run.record
    IN  (proc[p].user = record.owner_id /\ record.shared_with_id # "null")
          => /\ proc[p].run.aesKey = ContentKeyOf(record)
             /\ proc[p].outcome = "success"

\* the file of a folder has a key for receiver r that r's private key unwraps
\* to the key the file's content was encrypted under
HasKeyFor(file, r) ==
  /\ file.receiver_id = r
  /\ file.receiver_encrypted_aes_key # NULL
  /\ decryptKeyWithRSA(file.receiver_encrypted_aes_key, profiles[r].private_key_pem)
       = {StoredObject(file)[2]}

\* C26: after a folder share to R that reported success every file of the
\* folder has a key for R, and a folder marked as shared with R has no file
\* without a key for R
C26_SharedFolderHasAllKeys ==
  /\ \A p \in DoneRuns({"FolderShare"}) :
       proc[p].outcome = "success"
         => \A k \in FilesOfFolder(proc[p].run.block.data_json.fileName[2]) :
              HasKeyFor(encrypted_files[k], proc[p].run.block.receiver_id)
  /\ \A f \in 1..Len(encrypted_folders) :
       encrypted_folders[f].receiver_id # "null"
         => \A k \in FilesOfFolder(encrypted_folders[f].id) :
              HasKeyFor(encrypted_files[k], encrypted_folders[f].receiver_id)

\* C27: the tail a writer has read before it inserts is a block with the
\* highest index of the whole ledger (no block only when the ledger is empty):
\* the block it is about to insert has that index plus one and that block's
\* hash as previous_hash; and the rows appended one after the other share no
\* block_index and no previous_hash
HighestIndex(chain) ==
  {k \in 1..Len(chain) : \A m \in 1..Len(chain) : chain[m].block_index <= chain[k].block_index}

PendingLink(s) ==
  IF s.op = "FolderShare"
  THEN [block_index |-> s.newBlockIndex, previous_hash |-> s.previousHash]
  ELSE [block_index |-> s.block.block_index, previous_hash |-> s.block.previous_hash]

C27_TailReadIsLedgerTail ==
  /\ \A p \in Procs :
       (proc[p].op \in {"FolderShare", "ImageUpload"} /\ proc[p].pc = "insert")
         => IF Chain = <<>>
            THEN PendingLink(proc[p]) = [block_index |-> 0, previous_hash |-> ZERO]
            ELSE \E k \in HighestIndex(Chain) :
                   PendingLink(proc[p]) = [block_index |-> Chain[k].block_index + 1,
                                           previous_hash |-> Chain[k].current_hash]
  /\ \A j, k \in 1..Len(Chain) :
       j # k => /\ Chain[j].block_index # Chain[k].block_index
                /\ Chain[j].previous_hash # Chain[k].previous_hash

\* ------------------------------------------------ Dashboard.loadProfile
\* loadProfile runs in every session (tab) of a user whenever its user state
\* is set.  A run reads the profile row, and when the row has no public key
\* it generates a key pair, updates the row and keeps the pair in memory.
\* The random x of generateRSAKeyPair is any of RandomKeys.
RandomKeys == {"c", "d"}

\* select of the profile row (56-62); a row with a public key is set as the
\* session's profile at once (89), an error ends the run (90-92)
loadProfileSelect(p, u, failed) ==
  /\ CanStart(p)
  /\ nOps' = nOps + 1
  /\ LET data == profiles[u]
     IN  proc' = [proc EXCEPT ![p] =
           IF failed
           THEN [op |-> "loadProfile", pc |-> "done", user |-> u, outcome |-> "error",
                 run |-> [profile |-> NoKeys]]
           ELSE IF data.public_key_pem # NULL
           THEN [op |-> "loadProfile", pc |-> "done", user |-> u, outcome |-> "success",
                 run |-> [profile |-> data]]
           ELSE [op |-> "loadProfile", pc |-> "generate", user |-> u, data |-> data]]
  /\ UNCHANGED <<now, cap, profiles, encrypted_files, encrypted_folders, encrypted_images,
                 medical_records, blockchain_renewed, blockchain, cx>>

\* generateRSAKeyPair and the update of both columns of the row (70-81), then
\* the copy into data and setProfile (85-89); an update error ends the run
\* with no profile set (83)
loadProfileGenerate(p, x, updateError) ==
  /\ proc[p].op = "loadProfile" /\ proc[p].pc = "generate"
  /\ LET s == proc[p]
         pair == generateRSAKeyPair(x)
         keys == [public_key_pem |-> pair.publicKey, private_key_pem |-> pair.privateKey]
     IN  IF updateError
         THEN /\ Done(p, "error", [profile |-> NoKeys])
              /\ UNCHANGED profiles
         ELSE /\ profiles' = [profiles EXCEPT ![s.user] = keys]
              /\ Done(p, "success", [profile |-> keys])
  /\ UNCHANGED <<now, nOps, cap, encrypted_files, encrypted_folders, encrypted_images,
                 medical_records, blockchain_renewed, blockchain, cx>>

\* the profile rows before loadProfile has run: every user has no keys yet or
\* the pair an earlier run stored
InitProfile ==
  /\ now = 0
  /\ nOps = 0
  /\ cap = MaxOps + 1
  /\ profiles \in [Users -> {NoKeys, Matched("a"), Matched("b")}]
  /\ encrypted_images = <<>>
  /\ proc = [p \in Procs |-> Idle]
  /\ cx = <<>>
  /\ EmptyStore

NextProfile ==
  \/ \E p \in Procs, u \in Users, failed \in BOOLEAN : loadProfileSelect(p, u, failed)
  \/ \E p \in Procs, x \in RandomKeys, updateError \in BOOLEAN :
       loadProfileGenerate(p, x, updateError)

SpecProfile == InitProfile /\ [][NextProfile]_vars

\* C28: the stored halves of a key pair are of one generateRSAKeyPair call, a
\* stored pair is never replaced, and a session whose loadProfile has
\* succeeded holds the stored pair
C28_KeyPairIsSetOnce ==
  [][\A u \in Users :
       /\ profiles'[u] = NoKeys \/ \E x \in {"a", "b"} \cup RandomKeys : profiles'[u] = Matched(x)
       /\ profiles[u].public_key_pem # NULL => profiles'[u] = profiles[u]
       /\ \A p \in Procs :
            (proc'[p].op = "loadProfile" /\ proc'[p].pc = "done"
               /\ proc'[p].user = u /\ proc'[p].outcome = "success")
              => proc'[p].run.profile = profiles'[u]]_vars

\* --------------------------------------------- Blockchain.createGenesisBlock
\* calls of createGenesisBlock and addBlock on one Blockchain object; cx
\* also holds the block the last createGenesisBlock call returned
NoGenesis == [index |-> -1]

InitGenesis ==
  /\ now = 0
  /\ nOps = 0
  /\ cap = 0
  /\ profiles = [u \in Users |-> NoKeys]
  /\ encrypted_images = <<>>
  /\ EmptyStore
  /\ proc = [p \in Procs |-> Idle]
  /\ cx = [pc |-> "build", chain |-> <<>>, field |-> "none", at |-> 0, valid |-> FALSE,
           shown |-> FALSE, genesis |-> NoGenesis]

\* one createGenesisBlock call (28-44): three readings of the clock
CreateGenesisBlock ==
  /\ cx.pc = "build"
  /\ \E t1 \in ReadingsAfter(now) : \E t2 \in ReadingsAfter(t1) :
      \E t3 \in ReadingsAfter(t2) :
        /\ now' = t3
        /\ cx' = [cx EXCEPT !.genesis = createGenesisBlock(t1, t2, t3)]
  /\ UNCHANGED <<nOps, cap, profiles, encrypted_files, encrypted_folders,
                 encrypted_images, medical_records, blockchain_renewed, blockchain, proc>>

NextGenesis == CreateGenesisBlock \/ AddBlock

SpecGenesis == InitGenesis /\ [][NextGenesis]_vars

\* C29: the block createGenesisBlock returned has as hash the calculateHash of
\* its own index, timestamp, data and previousHash
C29_GenesisHashIsHashOfItsFields ==
  cx.genesis # NoGenesis
    => cx.genesis.hash = calculateHash(cx.genesis.index, cx.genesis.timestamp,
                                       cx.genesis.data, cx.genesis.previousHash)

\* ------------------------------------------- BlockchainValidation view
\* .select("*").order("block_index", {ascending: true}) (237-240): the rows
\* of blockchain_renewed the SELECT policy shows to user u, in ascending
\* block_index, rows of one index in any order
LedgerViews(u) ==
  LET vis == Visible(blockchain_renewed, u)
  IN  {[i \in 1..Cardinality(vis) |-> blockchain_renewed[order[i]]] :
         order \in {o \in Orderings(vis) :
                      \A i, j \in 1..Cardinality(vis) :
                        i < j => blockchain_renewed[o[i]].block_index
                                   <= blockchain_renewed[o[j]].block_index}}

\* loadBlockchain (235-251): setIsValid(validateChain(data)); on an error of
\* the select isValid keeps its value null
loadBlockchain(p, u, failed) ==
  /\ proc[p] # Off /\ ~Running(p)
  /\ IF failed
     THEN proc' = [proc EXCEPT ![p] =
            [op |-> "loadBlockchain", pc |-> "done", user |-> u, outcome |-> "error",
             run |-> [blocks |-> <<>>, isValid |-> NULL]]]
     ELSE \E data \in LedgerViews(u) :
            proc' = [proc EXCEPT ![p] =
              [op |-> "loadBlockchain", pc |-> "done", user |-> u, outcome |-> "success",
               run |-> [blocks |-> data, isValid |-> validateChain(data)]]]
  /\ UNCHANGED <<now, nOps, cap, profiles, encrypted_files, encrypted_folders,
                 encrypted_images, medical_records, blockchain_renewed, blockchain, cx>>

\* one session runs folder shares, image uploads and the view one after the
\* other, on the empty store or after the first upload of u1
InitView ==
  /\ now = 0
  /\ nOps = 0
  /\ cap = MaxOps + 1
  /\ profiles = MatchedDirectory
  /\ encrypted_images = <<>>
  /\ proc = [p \in Procs |-> IF p = "p1" THEN Idle ELSE Off]
  /\ cx = <<>>
  /\ EmptyStore \/ UploadedStore

NextView ==
  \/ NextLedger
  \/ \E p \in Procs, u \in Users, failed \in BOOLEAN : loadBlockchain(p, u, failed)

SpecView == InitView /\ [][NextView]_vars

\* C30: every view of the ledger that loaded its rows shows the chain as valid
C30_ViewShowsValidChain ==
  \A p \in DoneRuns({"loadBlockchain"}) :
    proc[p].outcome = "success" => proc[p].run.isValid

====
